---- MODULE Spec2Model ----
(***************************************************************************)
(* A model of ml_utils: the ensemble wrapper ModelCollection               *)
(* (ml_utils/models/model_collection.py) and the Lipschitz estimator       *)
(* (ml_utils/lipschitz.py).                                                *)
(*                                                                         *)
(* Python sequences are 0-based, TLA+ sequences 1-based: Python index ii   *)
(* is index ii+1 here.  Hyperparameter vectors live on a grid on which     *)
(* exp and log are exact: a log-space coordinate k stands for the natural  *)
(* value 2^k.  A quotient a/d is kept as a reduced fraction num over den.   *)
(***************************************************************************)
EXTENDS Integers, Sequences, FiniteSets

VARIABLES
    pc,            \* "new": wrapper not built; "constructed"; "failed": __init__ raised
    model,         \* the surrogate the caller passes to __init__
    opt_params,    \* self.opt_params
    burn_in,       \* self.burn_in
    original_model,\* self.original_model
    n_samples,     \* self.n_samples
    samples,       \* self.samples
    model_list,    \* self.model_list
    call,          \* the most recent call on the wrapper and its arguments
    ret,           \* what that call returned or raised
    trace,         \* the calls that call made on its collaborators, in order
    lip            \* estimate_lipschitz_constant: its inputs and its outcome

vars == <<pc, model, opt_params, burn_in, original_model, n_samples, samples,
          model_list, call, ret, trace, lip>>

wrapperVars == <<pc, model, opt_params, burn_in, original_model, n_samples,
                 samples, model_list, call, ret, trace>>

----------------------------------------------------------------------------
(* Bounds of the model *)

MaxN == 2          \* largest ensemble size opt_params['n_samples']
MaxBurn == 1       \* largest configured opt_params['burn_in']
MaxExtraRows == 1 \* a matrix passed to the setter has 0 .. N + MaxExtraRows rows

\* Python's None where a string stands for the value (an exception's name)
None == "None"

\* Python's None where a record stands for the value (a mapping, a model)
Unset == [unset |-> TRUE]

\* a reference that holds None or a numpy array with the given rows
NoneArray == [is_none |-> TRUE, rows |-> <<>>]
Array(p) == [is_none |-> FALSE, rows |-> p]

----------------------------------------------------------------------------
(* Values *)

\* log-space hyperparameter vectors the slice sampler can return (D = 2)
LogVecs == {<<0, 1>>, <<1, 0>>}

RECURSIVE Pow2(_)
Pow2(k) == IF k = 0 THEN 1 ELSE 2 * Pow2(k - 1)

\* np.exp, elementwise
Exp(v) == [j \in DOMAIN v |-> Pow2(v[j])]

Log2(n) == CHOOSE k \in 0..n : Pow2(k) = n

\* np.log, elementwise
Log(v) == [j \in DOMAIN v |-> Log2(v[j])]

NatVecs == {Exp(v) : v \in LogVecs}

RECURSIVE SumSeq(_)
SumSeq(s) == IF s = <<>> THEN 0 ELSE s[1] + SumSeq(Tail(s))

RECURSIVE Gcd(_, _)
Gcd(a, b) == IF b = 0 THEN a ELSE Gcd(b, a % b)

Abs(a) == IF a < 0 THEN -a ELSE a

\* a / d of numpy: a reduced fraction; with d = 0 the quotient is inf or nan
\* (numpy warns and does not raise) and is kept as a over 0
Div(a, d) ==
    IF d = 0 THEN [num |-> a, den |-> 0]
    ELSE LET g == Gcd(Abs(a), d) IN [num |-> a \div g, den |-> d \div g]

\* training sets (X, Y) a caller can pass to set_data
DataSets == { [X |-> <<1, 2>>, Y |-> <<2, 4>>] }

\* query points x_star a caller can pass to predict
XStars == { <<1, 2>> }

----------------------------------------------------------------------------
(* The surrogate model (ml_utils.models.GP) as far as the wrapper uses it *)

\* the mean of Y that set_data stores as y_mean
MeanOf(Y) == SumSeq(Y) \div Len(Y)

\* GP.set_data(X, Y): stores the inputs, the centred outputs and their mean
GPSetData(m, X, Y) ==
    [m EXCEPT !.X = X,
              !.Y = [j \in DOMAIN Y |-> Y[j] - MeanOf(Y)],
              !.y_mean = MeanOf(Y)]

\* GP.set_XY(X, Y): stores the inputs and outputs it is given
GPSetXY(m, X, Y) == [m EXCEPT !.X = X, !.Y = Y]

\* GP.predict(x_star): predictive mean and variance at each query point, a
\* function of the member's hyperparameters and training data
GPPredict(m, x_star) ==
    [m |-> [j \in DOMAIN x_star |->
               SumSeq(m.param_array) * x_star[j] + SumSeq(m.Y) + m.y_mean],
     v |-> [j \in DOMAIN x_star |-> SumSeq(m.param_array) + x_star[j]]]

\* GP.objective_log_theta(x): evaluating the objective at x leaves the model's
\* parameter vector at exp(x)
GPObjectiveLogTheta(m, x) == [m EXCEPT !.param_array = Exp(x)]

\* slice_sample(x0, logprob, ...): the last point at which the sampler
\* evaluates logprob is the point it accepts and returns
SliceSample(m, x0, next) ==
    [om |-> GPObjectiveLogTheta(m, next), value |-> next]

----------------------------------------------------------------------------
(* ModelCollection *)

HasKey(d, k) == k \in DOMAIN d

\* the optimization configurations of the surrogates a caller can pass:
\* 'burn_in', 'sigma' and 'hp_bounds' are optional keys
OptParams ==
    { [method |-> "grad"] }
    \cup { [method |-> "slice", n_samples |-> n] : n \in 1..MaxN }
    \cup { [method |-> "slice", n_samples |-> n, burn_in |-> b]
           : n \in 1..MaxN, b \in 0..MaxBurn }
    \cup { [method |-> "slice", n_samples |-> n, burn_in |-> 0,
            sigma |-> 2, hp_bounds |-> <<1, 4>>] : n \in 1..MaxN }

\* the surrogates a caller can pass to the constructor
Models ==
    { [mode |-> "sampling",
       opt_params |-> op,
       param_array |-> <<1, 2>>,
       X |-> <<1>>, Y |-> <<0>>, y_mean |-> 5] : op \in OptParams }

\* the burn-in count used when opt_params has no 'burn_in'
DefaultBurnIn == 100

\* the sampler's step size used when opt_params has no 'sigma'
DefaultSigma == 1

\* __init__ with the assertions moved after the reconfiguration of the model
ModelCollectionInitLateAssert(m) ==
    LET m2 == [m EXCEPT !.mode = "normal", !.opt_params = [method |-> "grad"]]
    IN  IF m.opt_params.method \notin {"slice"}
        THEN [raised |-> "AssertionError", model |-> m2]
        ELSE [raised |-> None,
              model |-> m2,
              opt_params |-> m.opt_params,
              burn_in |-> IF HasKey(m.opt_params, "burn_in")
                          THEN m.opt_params.burn_in ELSE DefaultBurnIn,
              original_model |-> m2,
              n_samples |-> m.opt_params.n_samples,
              samples |-> NoneArray,
              model_list |-> [ii \in 1..m.opt_params.n_samples |-> m2]]

\* ModelCollection.__init__(model)
ModelCollectionInit(m) ==
    IF ~ (HasKey(m, "opt_params") /\ m.opt_params.method \in {"slice"})
    THEN [raised |-> "AssertionError", model |-> m]
    ELSE LET m2 == [m EXCEPT !.mode = "normal",
                             !.opt_params = [method |-> "grad"]]
         IN  [raised |-> None,
              model |-> m2,
              opt_params |-> m.opt_params,
              burn_in |-> IF HasKey(m.opt_params, "burn_in")
                          THEN m.opt_params.burn_in ELSE DefaultBurnIn,
              original_model |-> m2,
              n_samples |-> m.opt_params.n_samples,
              samples |-> NoneArray,
              model_list |-> [ii \in 1..m.opt_params.n_samples |-> m2]]

NoCall == [op |-> "none"]

\* what a call returned (value) or raised
Returned(v) == [raised |-> None, value |-> v]
Raised(e) == [raised |-> e, value |-> None]

Init ==
    /\ pc = "new"
    /\ model \in Models
    /\ opt_params = Unset
    /\ burn_in = 0
    /\ original_model = Unset
    /\ n_samples = 0
    /\ samples = NoneArray
    /\ model_list = <<>>
    /\ call = NoCall
    /\ ret = Returned(None)
    /\ trace = <<>>
    /\ lip = Unset

\* the caller constructs the wrapper: ModelCollection(model)
Construct ==
    /\ pc = "new"
    /\ LET r == ModelCollectionInit(model)
       IN  /\ model' = r.model
           /\ call' = [op |-> "__init__"]
           /\ trace' = <<>>
           /\ IF r.raised # None
              THEN /\ pc' = "failed"
                   /\ ret' = Raised(r.raised)
                   /\ UNCHANGED <<opt_params, burn_in, original_model,
                                  n_samples, samples, model_list>>
              ELSE /\ pc' = "constructed"
                   /\ ret' = Returned(None)
                   /\ opt_params' = r.opt_params
                   /\ burn_in' = r.burn_in
                   /\ original_model' = r.original_model
                   /\ n_samples' = r.n_samples
                   /\ samples' = r.samples
                   /\ model_list' = r.model_list
    /\ UNCHANGED lip

\* every member gets the first row of the samples
UpdateLocalModelsHpsFirstRow(ml, s) ==
    [model_list |-> [ii \in DOMAIN ml |->
                        IF Len(s.rows) >= 1
                        THEN [ml[ii] EXCEPT !.param_array = s.rows[1]]
                        ELSE ml[ii]],
     raised |-> IF Len(s.rows) < Len(ml) THEN "IndexError" ELSE None]

\* update_local_models_hps: member ii gets samples[ii], in order; the loop
\* stops with an IndexError at the first member that has no row
UpdateLocalModelsHps(ml, s) ==
    [model_list |-> [ii \in DOMAIN ml |->
                        IF ii <= Len(s.rows)
                        THEN [ml[ii] EXCEPT !.param_array = s.rows[ii]]
                        ELSE ml[ii]],
     raised |-> IF Len(s.rows) < Len(ml) THEN "IndexError" ELSE None]

\* the mapping d with d[k] = v
SetItem(d, k, v) == [x \in DOMAIN d \cup {k} |-> IF x = k THEN v ELSE d[x]]

\* the setter without the write to self.samples
SetParamArrayNoStore(self, p) ==
    LET u == UpdateLocalModelsHps(self.model_list, Array(p))
    IN  [samples |-> self.samples,
         opt_params |-> SetItem(self.opt_params, "slice_hps", p),
         model_list |-> u.model_list,
         raised |-> u.raised]

\* param_array.setter: self.samples = p; self.opt_params['slice_hps'] = p;
\* self.update_local_models_hps()
SetParamArray(self, p) ==
    LET new == Array(p)
        u == UpdateLocalModelsHps(self.model_list, new)
    IN  [samples |-> new,
         opt_params |-> SetItem(self.opt_params, "slice_hps", p),
         model_list |-> u.model_list,
         raised |-> u.raised]

\* the fields of the wrapper the setter reads and writes
Self == [samples |-> samples, opt_params |-> opt_params, model_list |-> model_list]

\* the matrices a caller can pass to the setter: any number of rows
Matrices(n) == UNION { [1..r -> NatVecs] : r \in 0..(n + MaxExtraRows) }

\* the caller assigns wrapper.param_array = p
Assign ==
    /\ pc = "constructed"
    /\ \E p \in Matrices(n_samples) :
          LET r == SetParamArray(Self, p)
          IN  /\ samples' = r.samples
              /\ opt_params' = r.opt_params
              /\ model_list' = r.model_list
              /\ call' = [op |-> "param_array", p |-> p]
              /\ ret' = IF r.raised # None THEN Raised(r.raised) ELSE Returned(None)
              /\ trace' = <<>>
    /\ UNCHANGED <<pc, model, burn_in, original_model, n_samples, lip>>

\* the sampler restarted from the parameters optimize() found on entry
SamplerStartReset(om, starting_hps) == Log(starting_hps)

\* the first argument of each slice_sample call:
\* np.log(self.original_model.param_array), read when the call is made
SamplerStart(om, starting_hps) == Log(om.param_array)

\* the slice_sample calls of the two loops of optimize(), one per element of
\* chain (the positions the sampler returns), in order
RECURSIVE RunSampler(_, _, _, _, _)
RunSampler(om, starting_hps, chain, sigma, bounds) ==
    IF chain = <<>>
    THEN [om |-> om, calls |-> <<>>]
    ELSE LET x0 == SamplerStart(om, starting_hps)
             r == SliceSample(om, x0, Head(chain))
             rest == RunSampler(r.om, starting_hps, Tail(chain), sigma, bounds)
         IN  [om |-> rest.om,
              calls |-> <<[fn |-> "slice_sample", x0 |-> x0, sigma |-> sigma,
                           bounds |-> bounds, value |-> r.value]>> \o rest.calls]

\* np.zeros((n, d))
Zeros(n, d) == [ii \in 1..n |-> [j \in 1..d |-> 0]]

\* slice_hps allocated with one row too few
SliceHpsOneRowShort(n, d, burn, calls) ==
    [ii \in 1..(n - 1) |-> Exp(calls[burn + ii].value)]

\* slice_hps after the sampling loop: row ii is np.exp of what the ii-th
\* slice_sample call after the burn-in returned
SliceHps(n, d, burn, calls) ==
    [ii \in 1..n |->
        IF burn + ii <= Len(calls) THEN Exp(calls[burn + ii].value)
        ELSE Zeros(n, d)[ii]]

\* ModelCollection.optimize(): chain is what the burn_in + n_samples calls of
\* slice_sample return
ModelCollectionOptimize(self, om, burn, chain) ==
    LET starting_hps == om.param_array
        bounds == IF HasKey(self.opt_params, "hp_bounds")
                  THEN Array(Log(self.opt_params.hp_bounds)) ELSE NoneArray
        n == self.opt_params.n_samples
        sigma == IF HasKey(self.opt_params, "sigma")
                 THEN self.opt_params.sigma ELSE DefaultSigma
        run == RunSampler(om, starting_hps, chain, sigma, bounds)
        slice_hps == SliceHps(n, Len(om.param_array), burn, run.calls)
        set == SetParamArray(self, slice_hps)
    IN  [original_model |-> run.om,
         starting_hps |-> starting_hps,
         calls |-> run.calls,
         samples |-> set.samples,
         opt_params |-> set.opt_params,
         model_list |-> set.model_list,
         raised |-> set.raised]

\* the caller runs wrapper.optimize()
Optimize ==
    /\ pc = "constructed"
    /\ burn_in <= MaxBurn
    /\ \E chain \in [1..(burn_in + opt_params.n_samples) -> LogVecs] :
          LET r == ModelCollectionOptimize(Self, original_model, burn_in, chain)
          IN  /\ original_model' = r.original_model
              /\ samples' = r.samples
              /\ opt_params' = r.opt_params
              /\ model_list' = r.model_list
              /\ call' = [op |-> "optimize", starting_hps |-> r.starting_hps]
              /\ ret' = IF r.raised # None THEN Raised(r.raised) ELSE Returned(None)
              /\ trace' = r.calls
    /\ UNCHANGED <<pc, model, burn_in, n_samples, lip>>

\* update_local_models_data: every member gets the original model's inputs
\* and its outputs plus its stored output mean
UpdateLocalModelsData(ml, om) ==
    [ii \in DOMAIN ml |->
        GPSetXY(ml[ii], om.X, [j \in DOMAIN om.Y |-> om.Y[j] + om.y_mean])]

\* the set_XY calls update_local_models_data makes, in order
MemberCalls(ml, om) ==
    [ii \in DOMAIN ml |->
        [fn |-> "set_XY", target |-> ii, X |-> ml[ii].X, Y |-> ml[ii].Y]]

\* the members updated from the original model as it was before set_data
ModelCollectionSetDataStale(om, ml, X, Y) ==
    [original_model |-> GPSetData(om, X, Y),
     model_list |-> UpdateLocalModelsData(ml, om)]

\* ModelCollection.set_data(X, Y): self.original_model.set_data(X, Y), then
\* self.update_local_models_data()
ModelCollectionSetData(om, ml, X, Y) ==
    LET om2 == GPSetData(om, X, Y)
    IN  [original_model |-> om2,
         model_list |-> UpdateLocalModelsData(ml, om2)]

\* the caller runs wrapper.set_data(X, Y), or wrapper.set_XY(X, Y), which
\* only calls set_data
SetData ==
    /\ pc = "constructed"
    /\ \E d \in DataSets, name \in {"set_data", "set_XY"} :
          LET r == ModelCollectionSetData(original_model, model_list, d.X, d.Y)
          IN  /\ original_model' = r.original_model
              /\ model_list' = r.model_list
              /\ call' = [op |-> name, X |-> d.X, Y |-> d.Y]
              /\ ret' = Returned(None)
              /\ trace' = <<[fn |-> "set_data", target |-> 0,
                             X |-> d.X, Y |-> d.Y]>>
                          \o MemberCalls(r.model_list, r.original_model)
    /\ UNCHANGED <<pc, model, opt_params, burn_in, n_samples, samples, lip>>

\* len(None) taken to be 0
LenSamplesNoneIsZero(s) ==
    [raised |-> None, value |-> Len(s.rows)]

\* len(self.samples): Python raises TypeError for len(None)
LenSamples(s) ==
    IF s.is_none THEN [raised |-> "TypeError", value |-> 0]
    ELSE [raised |-> None, value |-> Len(s.rows)]

\* the elementwise sum of the predictions of members 1..n: mu += m; var += v
RECURSIVE SumPredictions(_, _, _)
SumPredictions(ml, n, x_star) ==
    IF n = 0
    THEN [m |-> [j \in DOMAIN x_star |-> 0], v |-> [j \in DOMAIN x_star |-> 0]]
    ELSE LET acc == SumPredictions(ml, n - 1, x_star)
             one == GPPredict(ml[n], x_star)
         IN  [m |-> [j \in DOMAIN x_star |-> acc.m[j] + one.m[j]],
              v |-> [j \in DOMAIN x_star |-> acc.v[j] + one.v[j]]]

\* np.diag of an (n, 1) array: its main diagonal, one element
Diag(var) == <<var[1]>>

\* the Gaussian log density -0.5 * (log(2 pi) + log(var) + (y - mu)^2 / var),
\* kept as the term of its arguments
LogProb(y_star, mu, var) == [y |-> y_star, mu |-> mu, var |-> var]

\* ModelCollection.predict(x_star, y_star, full_cov)
ModelCollectionPredict(n, ml, s, x_star, y_star, full_cov) ==
    LET sum == SumPredictions(ml, n, x_star)
        d == LenSamples(s)
        mu == [j \in DOMAIN x_star |-> Div(sum.m[j], d.value)]
        var == [j \in DOMAIN x_star |-> Div(sum.v[j], d.value)]
    IN  IF d.raised # None THEN Raised(d.raised)
        ELSE IF ~ y_star.is_none
        THEN Returned(<<mu, var,
                        LogProb(y_star.rows, mu,
                                IF full_cov THEN Diag(var) ELSE var)>>)
        ELSE Returned(<<mu, var>>)

\* the targets y_star a caller can pass with x_star
YStars(x_star) == {NoneArray, Array([j \in DOMAIN x_star |-> 3])}

\* the caller runs wrapper.predict(x_star, y_star, full_cov)
Predict ==
    /\ pc = "constructed"
    /\ \E x_star \in XStars, full_cov \in BOOLEAN :
       \E y_star \in YStars(x_star) :
          /\ call' = [op |-> "predict", x_star |-> x_star, y_star |-> y_star,
                      full_cov |-> full_cov]
          /\ ret' = ModelCollectionPredict(n_samples, model_list, samples,
                                           x_star, y_star, full_cov)
          /\ trace' = <<>>
    /\ UNCHANGED <<pc, model, opt_params, burn_in, original_model, n_samples,
                   samples, model_list, lip>>

\* members of the surrogate the wrapper does not define itself: a data
\* attribute, or a method with the numbers of arguments it accepts
GPMembers ==
    [y_mean |-> [callable |-> FALSE, min_args |-> 0, max_args |-> 0],
     update |-> [callable |-> TRUE, min_args |-> 0, max_args |-> 0],
     summary |-> [callable |-> TRUE, min_args |-> 0, max_args |-> 1],
     dmu_dx |-> [callable |-> TRUE, min_args |-> 1, max_args |-> 1]]

\* calling a method of the surrogate with args: a TypeError when the number
\* of arguments does not fit, else what the method returns (never a callable)
GPInvoke(name, args) ==
    IF Len(args) < GPMembers[name].min_args \/ Len(args) > GPMembers[name].max_args
    THEN Raised("TypeError")
    ELSE Returned([result_of |-> name, args |-> args])

\* the arguments __getattr__ calls the target with: evaluating *args in
\* __getattr__, which has no such name, raises NameError, and the handler of
\* NameError calls the target with no arguments
GetattrArgs(given) == <<>>

\* ModelCollection.__getattr__(name)
ModelCollectionGetattr(om, name) ==
    IF GPMembers[name].callable
    THEN [ret |-> GPInvoke(name, GetattrArgs(<<>>)),
          calls |-> <<[fn |-> name, args |-> GetattrArgs(<<>>)]>>]
    ELSE [ret |-> Returned(om[name]), calls |-> <<>>]

\* the caller reads wrapper.name (args absent), or calls wrapper.name(*args):
\* Python first evaluates wrapper.name through __getattr__, then calls what
\* that returned with args
Forward ==
    /\ pc = "constructed"
    /\ \E name \in DOMAIN GPMembers,
          args \in {NoneArray, Array(<<>>), Array(<<7>>), Array(<<7, 8>>)} :
          LET r == ModelCollectionGetattr(original_model, name)
          IN  /\ call' = [op |-> "__getattr__", name |-> name, args |-> args]
              /\ trace' = r.calls
              /\ ret' = IF args.is_none \/ r.ret.raised # None
                        THEN r.ret
                        ELSE Raised("TypeError")
    /\ UNCHANGED <<pc, model, opt_params, burn_in, original_model, n_samples,
                   samples, model_list, lip>>

Next ==
    \/ Construct
    \/ Assign
    \/ Optimize
    \/ SetData
    \/ Predict

Spec == Init /\ [][Next]_vars

\* construction and attribute forwarding alone
NextForward ==
    \/ Construct
    \/ Forward

SpecForward == Init /\ [][NextForward]_vars

----------------------------------------------------------------------------
(* estimate_lipschitz_constant (ml_utils/lipschitz.py).  Gradients and     *)
(* norms are integers in units of 1e-8.                                    *)

\* 1e-7, below which the estimate is replaced
LipThreshold == 10

\* 10, the replacement
LipFallback == 1000000000

\* the locations at which the surrogate's mean gradient is modelled
LipPoints == {1, 2}

\* one component of dmu_dx at a point: its entries along the trailing axis
GradComps == { <<0>>, <<3>>, <<6>>, <<4, 4>> }

\* the largest r with r * r <= n
Isqrt(n) == CHOOSE r \in 0..n : r * r <= n /\ n < (r + 1) * (r + 1)

\* dmu_dx(x).sum(-1) at one point
GradSum(g) == [j \in DOMAIN g |-> SumSeq(g[j])]

\* negative_df(x): minus the norm of the summed gradient at x
NegativeDf(surrogate, x) ==
    LET dmdx == GradSum(surrogate.dmu_dx[x])
    IN  - Isqrt(SumSeq([j \in DOMAIN dmdx |-> dmdx[j] * dmdx[j]]))

\* np.argmax(surrogate.dmu_dx(surrogate.X).sum(-1)): the 0-based position of
\* the first largest entry of the flattened (n, d) array
ArgmaxFlat(surrogate) ==
    LET n == Len(surrogate.X)
        d == Len(surrogate.dmu_dx[surrogate.X[1]])
        at(k) == GradSum(surrogate.dmu_dx[surrogate.X[(k \div d) + 1]])[(k % d) + 1]
    IN  CHOOSE k \in 0..(n * d - 1) :
            /\ \A l \in 0..(n * d - 1) : at(l) <= at(k)
            /\ \A l \in 0..(k - 1) : at(l) < at(k)

\* the estimate replaced also when it equals the threshold
FlatModelRuleInclusive(L) == IF L <= LipThreshold THEN LipFallback ELSE L

\* if L < 1e-7: L = 10
FlatModelRule(L) == IF L < LipThreshold THEN LipFallback ELSE L

\* the surrogates and bounds a caller can pass
LipInputs ==
    { [surrogate |-> [X |-> X, dmu_dx |-> g], bounds |-> b]
      : X \in { <<1>>, <<2, 1>> },
        g \in [LipPoints -> [1..2 -> GradComps]],
        b \in { [is_none |-> TRUE, box |-> {}],
                [is_none |-> FALSE, box |-> {1}],
                [is_none |-> FALSE, box |-> {1, 2}] } }

InitLip ==
    /\ pc = "new"
    /\ model = [mode |-> "sampling", opt_params |-> [method |-> "grad"],
                param_array |-> <<1, 2>>, X |-> <<1>>, Y |-> <<0>>, y_mean |-> 5]
    /\ opt_params = Unset
    /\ burn_in = 0
    /\ original_model = Unset
    /\ n_samples = 0
    /\ samples = NoneArray
    /\ model_list = <<>>
    /\ call = NoCall
    /\ ret = Returned(None)
    /\ trace = <<>>
    /\ \E in \in LipInputs :
          lip = [surrogate |-> in.surrogate, bounds |-> in.bounds,
                 status |-> "ready", opt_result |-> Unset, ret |-> Returned(0)]

\* the caller runs estimate_lipschitz_constant(surrogate, bounds): the
\* optimizer returns the objective at some point x it reached, with any
\* convergence flag
Estimate ==
    /\ lip.status = "ready"
    /\ IF lip.bounds.is_none
       THEN LET idx == ArgmaxFlat(lip.surrogate)
            IN  IF idx >= Len(lip.surrogate.X)
                THEN lip' = [lip EXCEPT !.status = "done",
                                        !.ret = Raised("IndexError")]
                ELSE \E x \in LipPoints, success \in BOOLEAN :
                        /\ NegativeDf(lip.surrogate, x)
                              <= NegativeDf(lip.surrogate, lip.surrogate.X[idx + 1])
                        /\ LET fun == NegativeDf(lip.surrogate, x)
                           IN  lip' = [lip EXCEPT
                                   !.status = "done",
                                   !.opt_result = [x |-> x, fun |-> fun,
                                                   success |-> success],
                                   !.ret = Returned(FlatModelRule(- fun))]
       ELSE \E x \in lip.bounds.box, success \in BOOLEAN :
               LET fun == NegativeDf(lip.surrogate, x)
               IN  lip' = [lip EXCEPT
                       !.status = "done",
                       !.opt_result = [x |-> x, fun |-> fun, success |-> success],
                       !.ret = Returned(FlatModelRule(- fun))]
    /\ UNCHANGED wrapperVars

NextLip == Estimate

SpecLip == InitLip /\ [][NextLip]_vars

----------------------------------------------------------------------------
(* Properties *)

\* the wrapper exists and the call named op is the one that has just ended
After(op) == pc = "constructed" /\ call.op = op

\* member ii holds row ii of the matrix p, for every member
Aligned(p) ==
    \A ii \in DOMAIN model_list : model_list[ii].param_array = p[ii]

\* C1: when optimize returns, the stored sample set has exactly N rows and
\* member i's parameter vector is row i of it, for every i, for every
\* ensemble size N >= 1 and burn-in count >= 0.
OptimizeSynchronizes ==
    After("optimize") =>
        /\ ret.raised = None
        /\ ~ samples.is_none
        /\ Len(samples.rows) = n_samples
        /\ Len(model_list) = n_samples
        /\ Aligned(samples.rows)

\* an optimize with burn-in has returned two different samples to two members
OptimizeSynchronizesWitness ==
    /\ After("optimize")
    /\ burn_in = 1
    /\ n_samples = 2
    /\ samples.rows[1] # samples.rows[2]
    /\ model_list[2].param_array = samples.rows[2]

\* C2 as stated: in every reachable state of the wrapper the count of stored
\* samples equals the number of ensemble members.
SampleCountAlwaysMembers ==
    pc = "constructed" =>
        /\ ~ samples.is_none
        /\ Len(samples.rows) = Len(model_list)

\* what holds of the stored samples in every state of the wrapper
SampleCountState ==
    pc = "constructed" =>
        /\ Len(model_list) = n_samples
        /\ samples.is_none <=> ~ HasKey(opt_params, "slice_hps")
        /\ ~ samples.is_none => samples.rows = opt_params.slice_hps
        /\ call.op = "__init__" => samples.is_none
        /\ call.op = "optimize" => Len(samples.rows) = Len(model_list)
        /\ call.op = "param_array" =>
              /\ samples = Array(call.p)
              /\ Len(call.p) = n_samples => Len(samples.rows) = Len(model_list)

\* set_data, set_XY and predict leave the stored samples alone
SampleCountStep ==
    call'.op \in {"set_data", "set_XY", "predict"} => samples' = samples

\* C2 amended: the wrapper always has N members; no samples are stored until
\* the first optimize or assignment, afterwards the stored samples are the
\* matrix last assigned (also kept in opt_params); their count is N when
\* optimize returns and after a matrix of N rows was assigned, and set_data
\* and predict do not change the stored samples.
SampleCountAmended == [] SampleCountState /\ [][SampleCountStep]_vars

\* a matrix with one row more than there are members has been assigned, and
\* predict has run since
SampleCountWitness ==
    /\ After("predict")
    /\ ~ samples.is_none
    /\ Len(samples.rows) = Len(model_list) + 1

\* the elementwise sum of the predictions of all the members, over their number
MemberAverage(x_star) ==
    LET sum == SumPredictions(model_list, Len(model_list), x_star)
    IN  [m |-> [j \in DOMAIN x_star |-> Div(sum.m[j], Len(model_list))],
         v |-> [j \in DOMAIN x_star |-> Div(sum.v[j], Len(model_list))]]

\* C3: every predict call made after samples were assigned (by optimize or by
\* the setter) returns as mean and variance the elementwise sum of the N
\* members' predictions divided by N.
PredictIsMemberAverage ==
    (After("predict") /\ ~ samples.is_none) =>
        /\ ret.raised = None
        /\ ret.value[1] = MemberAverage(call.x_star).m
        /\ ret.value[2] = MemberAverage(call.x_star).v

\* C4: after set_data or set_XY every member's inputs are the original
\* model's inputs and its outputs are the original model's outputs plus its
\* stored mean; the original model is updated first, from the arguments, and
\* all N members are then given identical data.
DataPropagated ==
    (After("set_data") \/ After("set_XY")) =>
        /\ original_model.X = call.X
        /\ \A ii \in DOMAIN model_list :
              /\ model_list[ii].X = original_model.X
              /\ model_list[ii].Y =
                    [j \in DOMAIN original_model.Y |->
                        original_model.Y[j] + original_model.y_mean]
        /\ Len(trace) = n_samples + 1
        /\ trace[1] = [fn |-> "set_data", target |-> 0,
                       X |-> call.X, Y |-> call.Y]
        /\ \A ii \in 1..n_samples :
              /\ trace[ii + 1].fn = "set_XY"
              /\ trace[ii + 1].target = ii
              /\ trace[ii + 1].X = trace[2].X
              /\ trace[ii + 1].Y = trace[2].Y

\* set_XY has given two members the new data, which differ from the data
\* the members were built with
DataPropagatedWitness ==
    /\ After("set_XY")
    /\ n_samples = 2
    /\ model_list[2].Y = <<2, 4>>
    /\ original_model.Y = <<-1, 1>>
    /\ original_model.y_mean = 3

\* the wrapper after a matrix of N rows was assigned
AssignState ==
    (After("param_array") /\ Len(call.p) = n_samples) =>
        /\ ret.raised = None
        /\ samples = Array(call.p)
        /\ opt_params.slice_hps = call.p
        /\ Len(model_list) = n_samples
        /\ Aligned(call.p)

\* the same matrix of N rows assigned a second time
AssignTwiceStep ==
    (/\ After("param_array")
     /\ call'.op = "param_array"
     /\ call'.p = call.p
     /\ Len(call.p) = n_samples)
    => /\ samples' = samples
       /\ opt_params' = opt_params
       /\ model_list' = model_list
       /\ original_model' = original_model
       /\ ret' = ret

\* C5: assigning an N x D matrix through the setter leaves the stored
\* samples, opt_params['slice_hps'] and the members' parameter vectors (row i
\* in member i) equal to the matrix; assigning the same matrix again changes
\* none of them.
AssignSynchronizesIdempotent == [] AssignState /\ [][AssignTwiceStep]_vars

\* a matrix of two different rows has been assigned to a wrapper of two
\* members that already held samples and data
AssignWitness ==
    /\ After("param_array")
    /\ n_samples = 2
    /\ Len(call.p) = 2
    /\ call.p[1] # call.p[2]
    /\ model_list[1].param_array = call.p[1]
    /\ model_list[2].param_array = call.p[2]
    /\ model_list[1].Y = <<2, 4>>

\* C6 as stated: predict on a wrapper to which no samples were ever assigned
\* does not end in a raised error.
PredictUnsampledReturns ==
    (After("predict") /\ samples.is_none) => ret.raised = None

\* C6 amended: predict on a wrapper to which no samples were ever assigned is
\* not validated and ends in a raised error: the TypeError of taking the
\* length of the absent sample set; no mean or variance is returned.
PredictUnsampledRaises ==
    (After("predict") /\ samples.is_none) =>
        /\ ret.raised = "TypeError"
        /\ ret.value = None

\* predict has run on a wrapper that never got samples
PredictUnsampledWitness ==
    /\ After("predict")
    /\ samples.is_none
    /\ ~ HasKey(opt_params, "slice_hps")

\* a step from the state in which the wrapper is not yet built
ConstructStep ==
    pc = "new" =>
        IF model.opt_params.method # "slice"
        THEN /\ pc' = "failed"
             /\ ret'.raised = "AssertionError"
             /\ model' = model
             /\ model_list' = <<>>
             /\ original_model' = Unset
        ELSE /\ pc' = "constructed"
             /\ ret'.raised = None
             /\ Len(model_list') = model.opt_params.n_samples
             /\ n_samples' = model.opt_params.n_samples
             /\ samples'.is_none
             /\ burn_in' = IF HasKey(model.opt_params, "burn_in")
                           THEN model.opt_params.burn_in ELSE 100

\* C7: constructing the wrapper from a model whose method is not 'slice'
\* fails with an AssertionError before the model is modified and before any
\* clone is made; from a 'slice' model it yields N members, no samples, and
\* burn-in as configured, or 100.
ConstructionContract == [][ConstructStep]_vars

\* construction has failed on a model that is still as it was passed
ConstructionWitness ==
    /\ pc = "failed"
    /\ model.mode = "sampling"
    /\ model.opt_params = [method |-> "grad"]

\* C8: a callable member of the original model reached through the
\* wrapper's forwarding is invoked with the arguments the call site supplies.
ForwardPassesArguments ==
    (/\ After("__getattr__")
     /\ GPMembers[call.name].callable
     /\ ~ call.args.is_none)
    => trace = <<[fn |-> call.name, args |-> call.args.rows]>>

\* C9: estimate_lipschitz_constant returns 10 when the maximal gradient norm
\* the optimizer found is below 1e-7 and that norm unchanged otherwise,
\* whatever the convergence flag; the result is never negative and never
\* in [0, 1e-7).
LipschitzFallback ==
    (lip.status = "done" /\ lip.ret.raised = None) =>
        LET L == - lip.opt_result.fun
        IN  /\ L < 10 => lip.ret.value = 1000000000
            /\ L >= 10 => lip.ret.value = L
            /\ lip.ret.value >= 10

\* a flat surrogate, an optimizer that did not converge: the estimate is 10
LipschitzFallbackWitness ==
    /\ lip.status = "done"
    /\ \A x \in LipPoints : NegativeDf(lip.surrogate, x) = 0
    /\ ~ lip.bounds.is_none
    /\ ~ lip.opt_result.success
    /\ lip.ret = Returned(1000000000)

\* C10: within one optimize call the first slice_sample call starts from the
\* log of the original model's parameters on entry, every later call from the
\* position the call before it returned, sample i is the exponential of what
\* sampling call i returned, and on return the original model's parameters
\* are the last position of the chain.
ChainContinues ==
    After("optimize") =>
        /\ Len(trace) = burn_in + n_samples
        /\ trace[1].x0 = Log(call.starting_hps)
        /\ \A k \in 2..Len(trace) : trace[k].x0 = trace[k - 1].value
        /\ \A ii \in 1..n_samples :
              samples.rows[ii] = Exp(trace[burn_in + ii].value)
        /\ original_model.param_array = Exp(trace[Len(trace)].value)

\* an optimize with burn-in whose chain moved at every call and ended away
\* from where the original model started
ChainContinuesWitness ==
    /\ After("optimize")
    /\ burn_in = 1
    /\ n_samples = 2
    /\ trace[1].value # trace[1].x0
    /\ trace[2].value # trace[1].value
    /\ trace[3].value # trace[2].value
    /\ original_model.param_array # call.starting_hps

====
